---- MODULE Spec2Model ----
(***************************************************************************)
(* Model of the remote-builder lifecycle of flyctl:                        *)
(*   internal/build/imgsrc/ensure_builder.go                               *)
(* EnsureBuilder validates the organization's recorded builder app,        *)
(* decommissions it when it is invalid, and creates a new one with         *)
(* deferred clean-up.  The remote fleet API is modelled by a recording     *)
(* fake: every call is appended to log together with its outcome, which    *)
(* the environment chooses (success, or one of Errors).                    *)
(***************************************************************************)
EXTENDS Integers, Sequences, FiniteSets, TLC

\* ------------------------------------------------------------------ bounds
MaxRuns == 2        \* EnsureBuilder invocations in one behaviour
MaxVolumes == 1     \* volumes of the pre-existing builder app
MaxMachines == 2    \* machines of the pre-existing builder app

Nil == 0

\* ------------------------------------------------------------------ errors
NoErr == [kind |-> "nil", status |-> 0, wrap |-> ""]
FlapsError(s) == [kind |-> "flaps", status |-> s, wrap |-> ""]
OtherError == [kind |-> "other", status |-> 0, wrap |-> ""]
ClientError == [kind |-> "client", status |-> 0, wrap |-> ""]
\* context.Canceled, the error of a call whose ctx is cancelled
Canceled == [kind |-> "canceled", status |-> 0, wrap |-> ""]
ValidateBuilderError(n) == [kind |-> "validate", status |-> n, wrap |-> ""]
NoBuilderApp == ValidateBuilderError(0)
NoBuilderVolume == ValidateBuilderError(1)
InvalidMachineCount == ValidateBuilderError(2)

\* status codes the fake remote answers with: the statuses next to and at
\* both edges of the 5xx range, and 404
ServerStatuses == {500, 503, 599}
ClientStatuses == {404, 499, 600}
\* the errors a call can fail with when the flaky remote answers with 5xx
\* status s: that server error, a non-5xx status, or an error with no status
ErrorsOf(s) == {FlapsError(s)} \cup {FlapsError(c) : c \in ClientStatuses} \cup {OtherError}
\* failures of the clean-up calls, whose result the code discards
CleanupErrors == {FlapsError(404), FlapsError(500)}

\* errors.As(err, &flapsErr): the chain holds a *flaps.FlapsError
AsFlapsError(e) == e.kind = "flaps"
\* errors.As(err, &validateBuilderErr)
AsValidateBuilderError(e) == e.kind = "validate"
\* mutant: the error is wrapped with the name of the phase
Wrapf_Phase(e) == [e EXCEPT !.wrap = "create"]
\* fmt.Errorf("waiting for app %s: %w", app.Name, err)
Wrapf(e) == [e EXCEPT !.wrap = "waiting for app"]

\* the retry condition of each of the three loops
\* mutants of the retry conditions: 4xx retried; status 500 left out
RetryCreateVolume_Retry4xx(e) == AsFlapsError(e) /\ e.status >= 400 /\ e.status < 600
RetryList_Above500(e) == AsFlapsError(e) /\ e.status > 500 /\ e.status < 600
RetryGetVolumes(e) == AsFlapsError(e) /\ e.status >= 500 /\ e.status < 600
RetryList(e) == AsFlapsError(e) /\ e.status >= 500 /\ e.status < 600
RetryCreateVolume(e) == AsFlapsError(e) /\ e.status >= 500 /\ e.status < 600

\* the give-up condition of each of the three loops, on the incremented counter
\* mutants of the give-up conditions: one attempt too many; the read budget
ListExhausted_OffByOne(n) == n > 3
CreateVolumeExhausted_ReadBudget(n) == n >= 3
GetVolumesExhausted_WriteBudget(n) == n >= 5
GetVolumesExhausted(n) == n >= 3
ListExhausted(n) == n >= 3
CreateVolumeExhausted(n) == n >= 5

\* ------------------------------------------------------------------- state
VARIABLES
    flaky,              \* the 5xx status the fake remote fails with when flaky
    stopped,            \* IDs of the machines that are not active
    cancelAt,           \* calls issued when ctx was cancelled; NotCancelled before
    pc,                 \* the remote call EnsureBuilder is about to make
    run,                \* EnsureBuilder invocations started so far
    orgApp,             \* org.RemoteBuilderApp as the platform records it
    remote,             \* the fake remote: app name -> its volumes and machines
    nextName,           \* next name the name generator yields
    nextVolume,         \* next volume ID the remote assigns
    nextMachine,        \* next machine ID the remote assigns
    builderApp,         \* EnsureBuilder: builderApp
    flapsApp,           \* AppName of the flaps client carried by ctx
    validateBuilderErr, \* EnsureBuilder: validateBuilderErr
    builderName,        \* EnsureBuilder: builderName
    numRetries,         \* numRetries of the loop in progress
    volume,             \* createBuilder: volume.ID
    app,                \* createBuilder: named result app (its name)
    mach,               \* createBuilder: named result mach (its ID)
    err,                \* createBuilder: named result err
    ret,                \* what EnsureBuilder returned (machine, app, err)
    prev,               \* what the previous invocation returned
    remote0,            \* the remote as it was when the invocation started
    log                 \* calls issued by the current invocation, in order

vars == <<flaky, stopped, cancelAt, pc, run, orgApp, remote, nextName, nextVolume, nextMachine,
          builderApp, flapsApp, validateBuilderErr, builderName, numRetries,
          volume, app, mach, err, ret, prev, remote0, log>>

\* ctx of the invocation: cancelAt tells whether ctx.Done() is closed
NotCancelled == -1
CtxDone == cancelAt # NotCancelled
\* the errors a remote call can fail with: those of the remote and, once ctx
\* is cancelled, the context's error
Errors == ErrorsOf(flaky) \cup (IF CtxDone THEN {Canceled} ELSE {})
envVars == <<flaky, stopped, cancelAt>>
remoteVars == <<envVars, remote0, orgApp, remote, nextName, nextVolume, nextMachine>>
createVars == <<builderName, volume>>
resultVars == <<app, mach>>

\* m.IsActive(): the machine is in none of the states that count as not active
IsActive(m) == m \notin stopped
\* lo.Filter(machines, ...) of ListActive
ActiveMachines(machines) == SelectSeq(machines, IsActive)

\* mutants of the two checks on the listings: a second volume required; an
\* empty listing let through; a single machine rejected; surplus machines
\* let through
NoVolumes_NeedsTwo(volumes) == Len(volumes) <= 1
NoVolumes_Never(volumes) == Len(volumes) < 0
WrongMachineCount_AtMostOne(machines) == Len(machines) <= 1
WrongMachineCount_OnlyZero(machines) == Len(machines) < 1

\* mutant: only the active machines are counted
WrongMachineCount_ActiveOnly(machines) == Len(ActiveMachines(machines)) # 1

\* len(volumes) == 0
NoVolumes(volumes) == Len(volumes) = 0
\* len(machines) != 1
WrongMachineCount(machines) == Len(machines) # 1

Call(op, arg, e, res) == [op |-> op, arg |-> arg, err |-> e, res |-> res]
Sleep == Call("Sleep", 1, NoErr, Nil)
NoReturn == [returned |-> FALSE, mach |-> Nil, app |-> Nil, err |-> NoErr]
\* what is remembered of a return once the next invocation starts
Outcome(r, l) ==
    [returned |-> r.returned, mach |-> r.mach, app |-> r.app, ok |-> r.err = NoErr,
     created |-> \E i \in DOMAIN l : l[i].op = "Launch" /\ l[i].err = NoErr]
Returned(m, a, e) == [returned |-> TRUE, mach |-> m, app |-> a, err |-> e]

RECURSIVE Without(_, _)
Without(s, x) ==
    IF s = <<>> THEN <<>>
    ELSE IF Head(s) = x THEN Without(Tail(s), x)
    ELSE <<Head(s)>> \o Without(Tail(s), x)

\* ------------------------------------------------------------ fake remote
\* The remote keeps, per app name, the volumes and machines of the app, and
\* the builder app it records for the organization: the app last created
\* with the remote-docker-builder role, until that app is deleted.  A call
\* that fails leaves the remote as it was.
EmptyApp == [vols |-> <<>>, machs |-> <<>>]
RemoteCreateApp(r, name) == [n \in DOMAIN r \cup {name} |-> IF n = name THEN EmptyApp ELSE r[n]]
RemoteDeleteApp(r, name) == [n \in DOMAIN r \ {name} |-> r[n]]
RemoteCreateVolume(r, name, id) ==
    IF name \in DOMAIN r THEN [r EXCEPT ![name].vols = Append(@, id)] ELSE r
RemoteDeleteVolume(r, name, id) ==
    IF name \in DOMAIN r THEN [r EXCEPT ![name].vols = Without(@, id)] ELSE r
RemoteLaunch(r, name, id) ==
    IF name \in DOMAIN r THEN [r EXCEPT ![name].machs = Append(@, id)] ELSE r
\* mutant: the listing holds the machines of every app of the organization
RemoteMachines_OrgWide(r, name) ==
    LET all == UNION {{r[n].machs[k] : k \in DOMAIN r[n].machs} : n \in DOMAIN r}
    IN [i \in 1..Cardinality(all) |->
            CHOOSE m \in all : Cardinality({x \in all : x < m}) = i - 1]
RemoteVolumes(r, name) == IF name \in DOMAIN r THEN r[name].vols ELSE <<>>
RemoteMachines(r, name) == IF name \in DOMAIN r THEN r[name].machs ELSE <<>>
OrgAfterDelete(o, name) == IF o = name THEN Nil ELSE o

\* -------------------------------------------------------------------- Init
Init ==
    /\ flaky \in ServerStatuses
    /\ cancelAt = NotCancelled
    /\ pc = "idle"
    /\ run = 0
    /\ \E has \in BOOLEAN, nv \in 0..MaxVolumes, nm \in 0..MaxMachines :
          IF has
          THEN /\ orgApp = 1
               /\ stopped \in SUBSET (1..nm)
               /\ remote = [n \in {1} |-> [vols |-> [i \in 1..nv |-> i],
                                           machs |-> [i \in 1..nm |-> i]]]
               /\ nextVolume = nv + 1
               /\ nextMachine = nm + 1
          ELSE /\ nv = 0 /\ nm = 0
               /\ stopped = {}
               /\ orgApp = Nil
               /\ remote = [n \in {} |-> EmptyApp]
               /\ nextVolume = 1
               /\ nextMachine = 1
    /\ nextName = 2
    /\ builderApp = Nil
    /\ flapsApp = Nil
    /\ validateBuilderErr = NoErr
    /\ builderName = Nil
    /\ numRetries = 0
    /\ volume = Nil
    /\ app = Nil
    /\ mach = Nil
    /\ err = NoErr
    /\ ret = NoReturn
    /\ prev = Outcome(NoReturn, <<>>)
    /\ remote0 = remote
    /\ log = <<>>

\* --------------------------------------------------------- EnsureBuilder
\* return machine, app, err
EnsureReturn(m, a, e) ==
    /\ ret' = Returned(m, a, e)
    /\ pc' = "done"

\* mutant: only InvalidMachineCount leads to decommissioning
AfterValidate_OnlyMachineCount(a, m, e) ==
    /\ validateBuilderErr' = (IF AsValidateBuilderError(e) THEN e ELSE NoErr)
    /\ IF e = NoErr THEN EnsureReturn(m, a, NoErr)
       ELSE IF ~AsValidateBuilderError(e) THEN EnsureReturn(Nil, Nil, e)
       ELSE IF e = InvalidMachineCount THEN pc' = "DeleteApp" /\ ret' = NoReturn
       ELSE pc' = "NewClient" /\ ret' = NoReturn

\* mutant: the test against NoBuilderApp is missing
AfterValidate_AlwaysDecommission(a, m, e) ==
    /\ validateBuilderErr' = (IF AsValidateBuilderError(e) THEN e ELSE NoErr)
    /\ IF e = NoErr THEN EnsureReturn(m, a, NoErr)
       ELSE IF ~AsValidateBuilderError(e) THEN EnsureReturn(Nil, Nil, e)
       ELSE pc' = "DeleteApp" /\ ret' = NoReturn

\* mutant: any validation error is returned, the defects included
AfterValidate_ReturnsDefect(a, m, e) ==
    /\ validateBuilderErr' = (IF AsValidateBuilderError(e) THEN e ELSE NoErr)
    /\ IF e = NoErr THEN EnsureReturn(m, a, NoErr)
       ELSE EnsureReturn(Nil, Nil, e)

\* mutant: a remote error of validation is taken for an invalid builder
AfterValidate_ErrorMeansInvalid(a, m, e) ==
    /\ validateBuilderErr' = (IF AsValidateBuilderError(e) THEN e ELSE NoErr)
    /\ IF e = NoErr THEN EnsureReturn(m, a, NoErr)
       ELSE IF e # NoBuilderApp THEN pc' = "DeleteApp" /\ ret' = NoReturn
       ELSE pc' = "NewClient" /\ ret' = NoReturn

\* mutant: an invalid builder is replaced without being deleted
AfterValidate_NeverDecommission(a, m, e) ==
    /\ validateBuilderErr' = (IF AsValidateBuilderError(e) THEN e ELSE NoErr)
    /\ IF e = NoErr THEN EnsureReturn(m, a, NoErr)
       ELSE IF ~AsValidateBuilderError(e) THEN EnsureReturn(Nil, Nil, e)
       ELSE pc' = "NewClient" /\ ret' = NoReturn

\* EnsureBuilder after validateBuilder returned (m, e) for app a
AfterValidate(a, m, e) ==
    /\ validateBuilderErr' = (IF AsValidateBuilderError(e) THEN e ELSE NoErr)
    /\ IF e = NoErr THEN EnsureReturn(m, a, NoErr)
       ELSE IF ~AsValidateBuilderError(e) THEN EnsureReturn(Nil, Nil, e)
       ELSE IF e # NoBuilderApp THEN pc' = "DeleteApp" /\ ret' = NoReturn
       ELSE pc' = "NewClient" /\ ret' = NoReturn

\* entry with b as org.RemoteBuilderApp: build the flaps client of the
\* existing app, enter validateBuilder up to its first remote call
Enter(b) ==
    /\ run' = run + 1
    /\ prev' = Outcome(ret, log)
    /\ remote0' = remote
    /\ log' = <<>>
    /\ builderApp' = b
    /\ numRetries' = 0
    /\ err' = NoErr
    /\ builderName' = Nil
    /\ volume' = Nil
    /\ app' = Nil
    /\ mach' = Nil
    /\ cancelAt' = NotCancelled
    /\ UNCHANGED <<flaky, stopped, orgApp, remote, nextName, nextVolume, nextMachine>>
    /\ IF b # Nil
       THEN \E ok \in BOOLEAN :
              IF ok
              THEN /\ flapsApp' = b
                   /\ pc' = "GetVolumes"
                   /\ ret' = NoReturn
                   /\ validateBuilderErr' = NoErr
              ELSE /\ flapsApp' = Nil
                   /\ validateBuilderErr' = NoErr
                   /\ EnsureReturn(Nil, Nil, ClientError)
       ELSE /\ flapsApp' = Nil
            /\ AfterValidate(Nil, Nil, NoBuilderApp)

\* an invocation given the builder app the organization records now
Start ==
    /\ pc \in {"idle", "done"}
    /\ run < MaxRuns
    /\ Enter(orgApp)

\* mutant: giving up drops the last error for an error of its own
GetVolumes_DropsLastError ==
    /\ pc = "GetVolumes"
    /\ UNCHANGED <<run, prev, builderApp, flapsApp, err, remoteVars, createVars, resultVars>>
    /\ \E e \in {NoErr} \cup Errors :
         LET vols == RemoteVolumes(remote, flapsApp)
             c == Call("GetVolumes", flapsApp, e, Len(vols))
         IN IF e = NoErr
            THEN /\ log' = Append(log, c)
                 /\ numRetries' = 0
                 /\ IF NoVolumes(vols)
                    THEN AfterValidate(builderApp, Nil, NoBuilderVolume)
                    ELSE /\ pc' = "List"
                         /\ UNCHANGED <<ret, validateBuilderErr>>
            ELSE IF RetryGetVolumes(e)
            THEN IF GetVolumesExhausted(numRetries + 1)
                 THEN /\ log' = Append(log, c)
                      /\ numRetries' = numRetries + 1
                      /\ AfterValidate(builderApp, Nil, OtherError)
                 ELSE /\ log' = log \o <<c, Sleep>>
                      /\ numRetries' = numRetries + 1
                      /\ UNCHANGED <<pc, ret, validateBuilderErr>>
            ELSE /\ log' = Append(log, c)
                 /\ numRetries' = numRetries
                 /\ AfterValidate(builderApp, Nil, e)

\* mutant: the loop tests ctx before a further attempt and aborts
GetVolumes_ChecksContext ==
    /\ pc = "GetVolumes"
    /\ UNCHANGED <<run, prev, builderApp, flapsApp, err, remoteVars, createVars, resultVars>>
    /\ IF CtxDone /\ numRetries > 0
       THEN /\ UNCHANGED <<log, numRetries>>
            /\ AfterValidate(builderApp, Nil, Canceled)
       ELSE \E e \in {NoErr} \cup Errors :
         LET vols == RemoteVolumes(remote, flapsApp)
             c == Call("GetVolumes", flapsApp, e, Len(vols))
         IN IF e = NoErr
            THEN /\ log' = Append(log, c)
                 /\ numRetries' = 0
                 /\ IF NoVolumes(vols)
                    THEN AfterValidate(builderApp, Nil, NoBuilderVolume)
                    ELSE /\ pc' = "List"
                         /\ UNCHANGED <<ret, validateBuilderErr>>
            ELSE IF RetryGetVolumes(e)
            THEN IF GetVolumesExhausted(numRetries + 1)
                 THEN /\ log' = Append(log, c)
                      /\ numRetries' = numRetries + 1
                      /\ AfterValidate(builderApp, Nil, e)
                 ELSE /\ log' = log \o <<c, Sleep>>
                      /\ numRetries' = numRetries + 1
                      /\ UNCHANGED <<pc, ret, validateBuilderErr>>
            ELSE /\ log' = Append(log, c)
                 /\ numRetries' = numRetries
                 /\ AfterValidate(builderApp, Nil, e)

\* mutant: the loop around List goes on counting where this one stopped
GetVolumes_SharedCounter ==
    /\ pc = "GetVolumes"
    /\ UNCHANGED <<run, prev, builderApp, flapsApp, err, remoteVars, createVars, resultVars>>
    /\ \E e \in {NoErr} \cup Errors :
         LET vols == RemoteVolumes(remote, flapsApp)
             c == Call("GetVolumes", flapsApp, e, Len(vols))
         IN IF e = NoErr
            THEN /\ log' = Append(log, c)
                 /\ numRetries' = numRetries
                 /\ IF NoVolumes(vols)
                    THEN AfterValidate(builderApp, Nil, NoBuilderVolume)
                    ELSE /\ pc' = "List"
                         /\ UNCHANGED <<ret, validateBuilderErr>>
            ELSE IF RetryGetVolumes(e)
            THEN IF GetVolumesExhausted(numRetries + 1)
                 THEN /\ log' = Append(log, c)
                      /\ numRetries' = numRetries + 1
                      /\ AfterValidate(builderApp, Nil, e)
                 ELSE /\ log' = log \o <<c, Sleep>>
                      /\ numRetries' = numRetries + 1
                      /\ UNCHANGED <<pc, ret, validateBuilderErr>>
            ELSE /\ log' = Append(log, c)
                 /\ numRetries' = numRetries
                 /\ AfterValidate(builderApp, Nil, e)

\* validateBuilderVolumes: one pass of the loop around GetVolumes
GetVolumes ==
    /\ pc = "GetVolumes"
    /\ UNCHANGED <<run, prev, builderApp, flapsApp, err, remoteVars, createVars, resultVars>>
    /\ \E e \in {NoErr} \cup Errors :
         LET vols == RemoteVolumes(remote, flapsApp)
             c == Call("GetVolumes", flapsApp, e, Len(vols))
         IN IF e = NoErr
            THEN /\ log' = Append(log, c)
                 /\ numRetries' = 0
                 /\ IF NoVolumes(vols)
                    THEN AfterValidate(builderApp, Nil, NoBuilderVolume)
                    ELSE /\ pc' = "List"
                         /\ UNCHANGED <<ret, validateBuilderErr>>
            ELSE IF RetryGetVolumes(e)
            THEN IF GetVolumesExhausted(numRetries + 1)
                 THEN /\ log' = Append(log, c)
                      /\ numRetries' = numRetries + 1
                      /\ AfterValidate(builderApp, Nil, e)
                 ELSE /\ log' = log \o <<c, Sleep>>
                      /\ numRetries' = numRetries + 1
                      /\ UNCHANGED <<pc, ret, validateBuilderErr>>
            ELSE /\ log' = Append(log, c)
                 /\ numRetries' = numRetries
                 /\ AfterValidate(builderApp, Nil, e)

\* mutant: validation removes the app it finds with a wrong machine count
List_DeletesInvalid ==
    /\ pc = "List"
    /\ UNCHANGED <<run, prev, builderApp, flapsApp, err, createVars, resultVars,
                   envVars, remote0, nextName, nextVolume, nextMachine>>
    /\ numRetries' = 0
    /\ LET machines == RemoteMachines(remote, flapsApp)
           c == Call("List", flapsApp, NoErr, Len(machines))
       IN IF WrongMachineCount(machines)
          THEN /\ log' = log \o <<c, Call("DeleteApp", flapsApp, NoErr, Nil)>>
               /\ remote' = RemoteDeleteApp(remote, flapsApp)
               /\ orgApp' = OrgAfterDelete(orgApp, flapsApp)
               /\ AfterValidate(builderApp, Nil, InvalidMachineCount)
          ELSE /\ log' = Append(log, c)
               /\ UNCHANGED <<remote, orgApp>>
               /\ AfterValidate(builderApp, machines[1], NoErr)

\* mutant: the loop sleeps before it tests the budget
List_SleepsBeforeGivingUp ==
    /\ pc = "List"
    /\ UNCHANGED <<run, prev, builderApp, flapsApp, err, remoteVars, createVars, resultVars>>
    /\ \E e \in {NoErr} \cup Errors :
         LET machines == RemoteMachines(remote, flapsApp)
             c == Call("List", flapsApp, e, Len(machines))
         IN IF e = NoErr
            THEN /\ log' = Append(log, c)
                 /\ numRetries' = 0
                 /\ IF WrongMachineCount(machines)
                    THEN AfterValidate(builderApp, Nil, InvalidMachineCount)
                    ELSE AfterValidate(builderApp, machines[1], NoErr)
            ELSE IF RetryList(e)
            THEN IF ListExhausted(numRetries + 1)
                 THEN /\ log' = log \o <<c, Sleep>>
                      /\ numRetries' = numRetries + 1
                      /\ AfterValidate(builderApp, Nil, e)
                 ELSE /\ log' = log \o <<c, Sleep>>
                      /\ numRetries' = numRetries + 1
                      /\ UNCHANGED <<pc, ret, validateBuilderErr>>
            ELSE /\ log' = Append(log, c)
                 /\ numRetries' = numRetries
                 /\ AfterValidate(builderApp, Nil, e)

\* validateBuilderMachines: one pass of the loop around List
List ==
    /\ pc = "List"
    /\ UNCHANGED <<run, prev, builderApp, flapsApp, err, remoteVars, createVars, resultVars>>
    /\ \E e \in {NoErr} \cup Errors :
         LET machines == RemoteMachines(remote, flapsApp)
             c == Call("List", flapsApp, e, Len(machines))
         IN IF e = NoErr
            THEN /\ log' = Append(log, c)
                 /\ numRetries' = 0
                 /\ IF WrongMachineCount(machines)
                    THEN AfterValidate(builderApp, Nil, InvalidMachineCount)
                    ELSE AfterValidate(builderApp, machines[1], NoErr)
            ELSE IF RetryList(e)
            THEN IF ListExhausted(numRetries + 1)
                 THEN /\ log' = Append(log, c)
                      /\ numRetries' = numRetries + 1
                      /\ AfterValidate(builderApp, Nil, e)
                 ELSE /\ log' = log \o <<c, Sleep>>
                      /\ numRetries' = numRetries + 1
                      /\ UNCHANGED <<pc, ret, validateBuilderErr>>
            ELSE /\ log' = Append(log, c)
                 /\ numRetries' = numRetries
                 /\ AfterValidate(builderApp, Nil, e)

\* mutant: the error of the decommissioning DeleteApp is ignored
DeleteApp_BestEffort ==
    /\ pc = "DeleteApp"
    /\ UNCHANGED <<run, prev, builderApp, flapsApp, err, numRetries, resultVars,
                   validateBuilderErr, createVars, envVars, remote0, nextName, nextVolume, nextMachine>>
    /\ \E e \in {NoErr} \cup Errors :
         /\ log' = Append(log, Call("DeleteApp", builderApp, e, Nil))
         /\ remote' = (IF e = NoErr THEN RemoteDeleteApp(remote, builderApp) ELSE remote)
         /\ orgApp' = (IF e = NoErr THEN OrgAfterDelete(orgApp, builderApp) ELSE orgApp)
         /\ pc' = "NewClient"
         /\ ret' = NoReturn

\* client.DeleteApp(ctx, builderApp.Name) of the invalid builder
DeleteApp ==
    /\ pc = "DeleteApp"
    /\ UNCHANGED <<run, prev, builderApp, flapsApp, err, numRetries, resultVars,
                   validateBuilderErr, createVars, envVars, remote0, nextName, nextVolume, nextMachine>>
    /\ \E e \in {NoErr} \cup Errors :
         /\ log' = Append(log, Call("DeleteApp", builderApp, e, Nil))
         /\ IF e = NoErr
            THEN /\ remote' = RemoteDeleteApp(remote, builderApp)
                 /\ orgApp' = OrgAfterDelete(orgApp, builderApp)
                 /\ pc' = "NewClient"
                 /\ ret' = NoReturn
            ELSE /\ UNCHANGED <<remote, orgApp>>
                 /\ EnsureReturn(Nil, Nil, e)

\* builderName := "fly-builder-" + haikunator.Haikunator().Build()
Haikunator(n) == n

\* mutant: the new builder is created under the name of the recorded one
NewClient_ReusesName ==
    /\ pc = "NewClient"
    /\ UNCHANGED <<run, prev, builderApp, err, numRetries, validateBuilderErr,
                   resultVars, volume, log, envVars, remote0, orgApp, remote, nextVolume, nextMachine>>
    /\ builderName' = (IF builderApp # Nil THEN builderApp ELSE Haikunator(nextName))
    /\ nextName' = nextName + 1
    /\ \E ok \in BOOLEAN :
         IF ok
         THEN /\ flapsApp' = builderName'
              /\ pc' = "CreateApp"
              /\ ret' = NoReturn
         ELSE /\ flapsApp' = flapsApp
              /\ EnsureReturn(Nil, Nil, ClientError)

\* the new name and the flaps client of the new app
NewClient ==
    /\ pc = "NewClient"
    /\ UNCHANGED <<run, prev, builderApp, err, numRetries, validateBuilderErr,
                   resultVars, volume, log, envVars, remote0, orgApp, remote, nextVolume, nextMachine>>
    /\ builderName' = Haikunator(nextName)
    /\ nextName' = nextName + 1
    /\ \E ok \in BOOLEAN :
         IF ok
         THEN /\ flapsApp' = builderName'
              /\ pc' = "CreateApp"
              /\ ret' = NoReturn
         ELSE /\ flapsApp' = flapsApp
              /\ EnsureReturn(Nil, Nil, ClientError)

\* ---------------------------------------------------------- createBuilder
\* mutant: the app clean-up is deferred before the CreateApp error is tested
CreateFails_Unwinds(e) ==
    /\ app' = Nil
    /\ mach' = Nil
    /\ err' = e
    /\ pc' = "DeferDeleteApp"
    /\ ret' = NoReturn

\* createBuilder returns (nil, nil, e) before any clean-up is deferred
CreateFails(e) ==
    /\ app' = Nil
    /\ mach' = Nil
    /\ err' = e
    /\ EnsureReturn(Nil, Nil, e)

\* mutant: the failing step returns the app created so far with the error
CreateUnwinds_KeepsApp(e, first) ==
    /\ app' = app
    /\ mach' = Nil
    /\ err' = e
    /\ pc' = first
    /\ ret' = NoReturn

\* createBuilder returns (nil, nil, e) with the given clean-up pending
CreateUnwinds(e, first) ==
    /\ app' = Nil
    /\ mach' = Nil
    /\ err' = e
    /\ pc' = first
    /\ ret' = NoReturn

CreateApp ==
    /\ pc = "CreateApp"
    /\ UNCHANGED <<run, prev, builderApp, flapsApp, numRetries, validateBuilderErr,
                   createVars, envVars, remote0, nextName, nextVolume, nextMachine>>
    /\ \E e \in {NoErr} \cup Errors :
         /\ log' = Append(log, Call("CreateApp", builderName, e, Nil))
         /\ IF e = NoErr
            THEN /\ remote' = RemoteCreateApp(remote, builderName)
                 /\ orgApp' = builderName
                 /\ app' = builderName
                 /\ mach' = Nil
                 /\ err' = NoErr
                 /\ pc' = "AllocateIPAddress"
                 /\ ret' = NoReturn
            ELSE /\ UNCHANGED <<remote, orgApp>>
                 /\ CreateFails(e)

\* mutant: a 5xx answer to AllocateIPAddress is retried once
AllocateIPAddress_Retries ==
    /\ pc = "AllocateIPAddress"
    /\ UNCHANGED <<run, prev, builderApp, flapsApp, numRetries, validateBuilderErr,
                   createVars, remoteVars>>
    /\ \E e \in {NoErr} \cup Errors :
         LET c == Call("AllocateIPAddress", builderName, e, Nil)
         IN IF e = NoErr
            THEN /\ log' = Append(log, c)
                 /\ err' = NoErr
                 /\ UNCHANGED resultVars
                 /\ pc' = "WaitForApp"
                 /\ ret' = NoReturn
            ELSE IF RetryCreateVolume(e) /\ log[Len(log)].op = "CreateApp"
            THEN /\ log' = log \o <<c, Sleep>>
                 /\ err' = e
                 /\ UNCHANGED <<pc, ret, resultVars>>
            ELSE /\ log' = Append(log, c)
                 /\ CreateUnwinds(e, "DeferDeleteApp")

\* _, err = client.AllocateIPAddress(ctx, app.Name, "shared_v4", "", org, "")
AllocateIPAddress ==
    /\ pc = "AllocateIPAddress"
    /\ UNCHANGED <<run, prev, builderApp, flapsApp, numRetries, validateBuilderErr,
                   createVars, remoteVars>>
    /\ \E e \in {NoErr} \cup Errors :
         /\ log' = Append(log, Call("AllocateIPAddress", builderName, e, Nil))
         /\ IF e = NoErr
            THEN /\ err' = NoErr
                 /\ UNCHANGED resultVars
                 /\ pc' = "WaitForApp"
                 /\ ret' = NoReturn
            ELSE CreateUnwinds(e, "DeferDeleteApp")

\* err = flapsClient.WaitForApp(ctx, app.Name), then numRetries := 0
WaitForApp ==
    /\ pc = "WaitForApp"
    /\ UNCHANGED <<run, prev, builderApp, flapsApp, validateBuilderErr,
                   createVars, remoteVars>>
    /\ \E e \in {NoErr} \cup Errors :
         /\ log' = Append(log, Call("WaitForApp", builderName, e, Nil))
         /\ numRetries' = 0
         /\ IF e = NoErr
            THEN /\ err' = NoErr
                 /\ UNCHANGED resultVars
                 /\ pc' = "CreateVolume"
                 /\ ret' = NoReturn
            ELSE CreateUnwinds(Wrapf(e), "DeferDeleteApp")

\* mutant: the loop is left by break when the retries are used up, so the
\* launch follows without a volume
CreateVolume_BreaksWhenExhausted ==
    /\ pc = "CreateVolume"
    /\ UNCHANGED <<run, prev, builderApp, flapsApp, validateBuilderErr, builderName,
                   envVars, remote0, orgApp, nextName, nextMachine>>
    /\ \E e \in {NoErr} \cup Errors :
         IF e = NoErr
         THEN /\ log' = Append(log, Call("CreateVolume", flapsApp, e, nextVolume))
              /\ volume' = nextVolume
              /\ nextVolume' = nextVolume + 1
              /\ remote' = RemoteCreateVolume(remote, flapsApp, nextVolume)
              /\ numRetries' = numRetries
              /\ err' = NoErr
              /\ UNCHANGED resultVars
              /\ pc' = "Launch"
              /\ ret' = NoReturn
         ELSE /\ UNCHANGED <<volume, nextVolume, remote>>
              /\ IF RetryCreateVolume(e)
                 THEN IF CreateVolumeExhausted(numRetries + 1)
                      THEN /\ log' = Append(log, Call("CreateVolume", flapsApp, e, Nil))
                           /\ numRetries' = numRetries + 1
                           /\ err' = e
                           /\ UNCHANGED resultVars
                           /\ pc' = "Launch"
                           /\ ret' = NoReturn
                      ELSE /\ log' = log \o <<Call("CreateVolume", flapsApp, e, Nil), Sleep>>
                           /\ numRetries' = numRetries + 1
                           /\ err' = e
                           /\ UNCHANGED <<pc, ret, resultVars>>
                 ELSE /\ log' = Append(log, Call("CreateVolume", flapsApp, e, Nil))
                      /\ numRetries' = numRetries
                      /\ CreateUnwinds(e, "DeferDeleteApp")

\* one pass of the loop around CreateVolume
CreateVolume ==
    /\ pc = "CreateVolume"
    /\ UNCHANGED <<run, prev, builderApp, flapsApp, validateBuilderErr, builderName,
                   envVars, remote0, orgApp, nextName, nextMachine>>
    /\ \E e \in {NoErr} \cup Errors :
         IF e = NoErr
         THEN /\ log' = Append(log, Call("CreateVolume", flapsApp, e, nextVolume))
              /\ volume' = nextVolume
              /\ nextVolume' = nextVolume + 1
              /\ remote' = RemoteCreateVolume(remote, flapsApp, nextVolume)
              /\ numRetries' = numRetries
              /\ err' = NoErr
              /\ UNCHANGED resultVars
              /\ pc' = "Launch"
              /\ ret' = NoReturn
         ELSE /\ UNCHANGED <<volume, nextVolume, remote>>
              /\ IF RetryCreateVolume(e)
                 THEN IF CreateVolumeExhausted(numRetries + 1)
                      THEN /\ log' = Append(log, Call("CreateVolume", flapsApp, e, Nil))
                           /\ numRetries' = numRetries + 1
                           /\ CreateUnwinds(e, "DeferDeleteApp")
                      ELSE /\ log' = log \o <<Call("CreateVolume", flapsApp, e, Nil), Sleep>>
                           /\ numRetries' = numRetries + 1
                           /\ err' = e
                           /\ UNCHANGED <<pc, ret, resultVars>>
                 ELSE /\ log' = Append(log, Call("CreateVolume", flapsApp, e, Nil))
                      /\ numRetries' = numRetries
                      /\ CreateUnwinds(e, "DeferDeleteApp")

Launch ==
    /\ pc = "Launch"
    /\ UNCHANGED <<run, prev, builderApp, flapsApp, validateBuilderErr, numRetries,
                   createVars, envVars, remote0, orgApp, nextName, nextVolume>>
    /\ \E e \in {NoErr} \cup Errors :
         IF e = NoErr
         THEN /\ log' = Append(log, Call("Launch", volume, e, nextMachine))
              /\ nextMachine' = nextMachine + 1
              /\ remote' = RemoteLaunch(remote, flapsApp, nextMachine)
              /\ mach' = nextMachine
              /\ app' = app
              /\ err' = NoErr
              /\ pc' = "DeferDeleteVolume"
              /\ ret' = NoReturn
         ELSE /\ log' = Append(log, Call("Launch", volume, e, Nil))
              /\ UNCHANGED <<nextMachine, remote>>
              /\ CreateUnwinds(e, "DeferDeleteVolume")

\* mutant: the volume clean-up is never deferred
DeferDeleteVolume_NotDeferred ==
    /\ pc = "DeferDeleteVolume"
    /\ pc' = "DeferDeleteApp"
    /\ UNCHANGED <<run, prev, builderApp, flapsApp, validateBuilderErr, numRetries,
                   createVars, resultVars, err, ret, remoteVars, log>>

\* mutant: the app clean-up runs whatever err is
AppCleanupDue_Always(e) == TRUE

\* the conditions of the two deferred functions: if err != nil
VolumeCleanupDue(e) == e # NoErr
AppCleanupDue(e) == e # NoErr

\* mutant: the clean-ups run in the order they were deferred in
DeferDeleteVolume_RegistrationOrder ==
    /\ pc = "DeferDeleteVolume"
    /\ UNCHANGED <<run, prev, builderApp, flapsApp, validateBuilderErr, numRetries,
                   createVars, resultVars, err, envVars, remote0, nextName, nextVolume,
                   nextMachine>>
    /\ IF err # NoErr
       THEN /\ log' = log \o <<Call("DeleteApp", builderName, NoErr, Nil),
                                Call("DeleteVolume", volume, NoErr, Nil)>>
            /\ remote' = RemoteDeleteApp(remote, builderName)
            /\ orgApp' = OrgAfterDelete(orgApp, builderName)
       ELSE UNCHANGED <<log, remote, orgApp>>
    /\ EnsureReturn(mach, app, err)

\* second deferred function: flapsClient.DeleteVolume(ctx, volume.ID)
DeferDeleteVolume ==
    /\ pc = "DeferDeleteVolume"
    /\ UNCHANGED <<run, prev, builderApp, flapsApp, validateBuilderErr, numRetries,
                   createVars, resultVars, err, ret, envVars, remote0, orgApp,
                   nextName, nextVolume, nextMachine>>
    /\ IF VolumeCleanupDue(err)
       THEN \E e \in {NoErr} \cup CleanupErrors :
              /\ log' = Append(log, Call("DeleteVolume", volume, e, Nil))
              /\ remote' = (IF e = NoErr THEN RemoteDeleteVolume(remote, flapsApp, volume)
                                         ELSE remote)
       ELSE UNCHANGED <<log, remote>>
    /\ pc' = "DeferDeleteApp"

\* mutant: the error of the app clean-up is assigned to err
DeferDeleteApp_ReturnsCleanupError ==
    /\ pc = "DeferDeleteApp"
    /\ UNCHANGED <<run, prev, builderApp, flapsApp, validateBuilderErr, numRetries,
                   createVars, resultVars, envVars, remote0, nextName, nextVolume,
                   nextMachine>>
    /\ IF err # NoErr
       THEN \E e \in {NoErr} \cup CleanupErrors :
              /\ log' = Append(log, Call("DeleteApp", builderName, e, Nil))
              /\ err' = (IF e = NoErr THEN err ELSE e)
              /\ IF e = NoErr
                 THEN /\ remote' = RemoteDeleteApp(remote, builderName)
                      /\ orgApp' = OrgAfterDelete(orgApp, builderName)
                 ELSE UNCHANGED <<remote, orgApp>>
       ELSE UNCHANGED <<log, remote, orgApp, err>>
    /\ EnsureReturn(mach, app, err')

\* first deferred function: client.DeleteApp(ctx, builderName); then
\* createBuilder returns (app, mach, err) and EnsureBuilder machine, app, err
DeferDeleteApp ==
    /\ pc = "DeferDeleteApp"
    /\ UNCHANGED <<run, prev, builderApp, flapsApp, validateBuilderErr, numRetries,
                   createVars, resultVars, err, envVars, remote0, nextName, nextVolume,
                   nextMachine>>
    /\ IF AppCleanupDue(err)
       THEN \E e \in {NoErr} \cup CleanupErrors :
              /\ log' = Append(log, Call("DeleteApp", builderName, e, Nil))
              /\ IF e = NoErr
                 THEN /\ remote' = RemoteDeleteApp(remote, builderName)
                      /\ orgApp' = OrgAfterDelete(orgApp, builderName)
                 ELSE UNCHANGED <<remote, orgApp>>
       ELSE UNCHANGED <<log, remote, orgApp>>
    /\ EnsureReturn(mach, app, err)

Next ==
    \/ Start
    \/ GetVolumes
    \/ List
    \/ DeleteApp
    \/ NewClient
    \/ CreateApp
    \/ AllocateIPAddress
    \/ WaitForApp
    \/ CreateVolume
    \/ Launch
    \/ DeferDeleteVolume
    \/ DeferDeleteApp

Spec == Init /\ [][Next]_vars

\* the caller cancels ctx while a retry loop sleeps between two attempts
Cancel ==
    /\ pc \notin {"idle", "done"}
    /\ ~CtxDone
    /\ log # <<>>
    /\ log[Len(log)].op = "Sleep"
    /\ cancelAt' = Len(log)
    /\ UNCHANGED <<flaky, stopped, pc, run, orgApp, remote, nextName, nextVolume,
                   nextMachine, builderApp, flapsApp, validateBuilderErr, builderName,
                   numRetries, volume, app, mach, err, ret, prev, remote0, log>>

NextCancel == Next \/ Cancel

\* EnsureBuilder with a caller that may cancel ctx
SpecCancel == Init /\ [][NextCancel]_vars

\* Two callers race: each read the organization while it recorded no
\* builder app, so each invocation is given org.RemoteBuilderApp = nil.  The
\* remote calls of the two touch different app names; the model runs the
\* racing invocations one after the other, which is one of their schedules.
Racers == 2
StartRacing ==
    /\ pc \in {"idle", "done"}
    /\ run < Racers
    /\ Enter(Nil)

\* an invocation after the race, given the builder app recorded by then
StartAfterRace ==
    /\ pc = "done"
    /\ run >= Racers
    /\ run < Racers + MaxRuns - 1
    /\ Enter(orgApp)

InitRace == Init /\ orgApp = Nil

NextRace ==
    \/ StartRacing
    \/ StartAfterRace
    \/ GetVolumes
    \/ List
    \/ DeleteApp
    \/ NewClient
    \/ CreateApp
    \/ AllocateIPAddress
    \/ WaitForApp
    \/ CreateVolume
    \/ Launch
    \/ DeferDeleteVolume
    \/ DeferDeleteApp

SpecRace == InitRace /\ [][NextRace]_vars

\* every remote call returns: a call that is due is made, and an invocation
\* in progress runs on to its return
Step ==
    \/ GetVolumes
    \/ List
    \/ DeleteApp
    \/ NewClient
    \/ CreateApp
    \/ AllocateIPAddress
    \/ WaitForApp
    \/ CreateVolume
    \/ Launch
    \/ DeferDeleteVolume
    \/ DeferDeleteApp

FairSpec == Spec /\ WF_vars(Step)

\* ================================================================ claims
\* what the claims say about the log of the current invocation
ReadAttempts == 3
WriteAttempts == 5
Idx(op) == {i \in DOMAIN log : log[i].op = op}
Failed(i) == log[i].err # NoErr
\* the attempt number of call i among the calls of the same operation
Rank(i) == Cardinality({j \in 1..i : log[j].op = log[i].op})
\* a remote error whose response status is in the 500-599 range
IsServerStatus(e) == e.kind = "flaps" /\ e.status >= 500 /\ e.status <= 599
IsLast(i) == i = Len(log)
RetryFollows(i) == i < Len(log) /\ log[i + 1].op = "Sleep"
CleanupOps == {"DeleteVolume", "DeleteApp"}
OnlyCleanupAfter(i) == \A j \in DOMAIN log : j > i => log[j].op \in CleanupOps
Unwinding == pc \in {"DeferDeleteVolume", "DeferDeleteApp", "done"}

\* resources this invocation created, and those a delete call was issued for
CreatedSet ==
    {<<"app", log[i].arg>> : i \in {j \in Idx("CreateApp") : ~Failed(j)}}
    \cup {<<"volume", log[i].res>> : i \in {j \in Idx("CreateVolume") : ~Failed(j)}}
DeleteIssuedSet ==
    {<<"app", log[i].arg>> : i \in Idx("DeleteApp")}
    \cup {<<"volume", log[i].arg>> : i \in Idx("DeleteVolume")}

\* C1 - Rollback completeness: when CreateApp and CreateVolume succeeded and
\* Launch then fails, by the time EnsureBuilder has returned a DeleteVolume
\* call for the created volume's ID and a DeleteApp call for the new app's
\* name were issued after the Launch, every resource the run created has a
\* delete call issued for it, and EnsureBuilder returns the Launch error.
C1_RollbackCompleteness ==
    \A i \in Idx("Launch") :
        (Failed(i) /\ pc = "done") =>
            /\ \A j \in Idx("CreateVolume") : ~Failed(j) =>
                    \E k \in Idx("DeleteVolume") : k > i /\ log[k].arg = log[j].res
            /\ \A j \in Idx("CreateApp") : ~Failed(j) =>
                    \E k \in Idx("DeleteApp") : k > i /\ log[k].arg = log[j].arg
            /\ CreatedSet # {}
            /\ CreatedSet \ DeleteIssuedSet = {}
            /\ ret = Returned(Nil, Nil, log[i].err)

\* C1 witness: an invocation that has returned after a failed Launch
C1_Witness ==
    /\ pc = "done"
    /\ \E i \in Idx("Launch") : Failed(i)
    /\ Cardinality(CreatedSet) = 2

\* C2 - Read retry budget: GetVolumes and List are each invoked at most 3
\* times in one validation; a 5xx answer to attempt 1 or 2 is followed by
\* another attempt; a 5xx answer to attempt 3 ends the invocation with that
\* very error; a successful attempt is never followed by a further attempt
\* and never makes the invocation fail.
C2_ReadRetryBudget ==
    \A op \in {"GetVolumes", "List"} :
        /\ Cardinality(Idx(op)) <= ReadAttempts
        /\ \A i \in Idx(op) :
            /\ (IsServerStatus(log[i].err) /\ Rank(i) < ReadAttempts) =>
                    /\ RetryFollows(i)
                    /\ (pc = op /\ ~ret.returned) \/ (\E j \in Idx(op) : j > i)
            /\ (IsServerStatus(log[i].err) /\ Rank(i) >= ReadAttempts) =>
                    /\ Rank(i) = ReadAttempts
                    /\ IsLast(i)
                    /\ pc = "done"
                    /\ ret = Returned(Nil, Nil, log[i].err)
            /\ ~Failed(i) =>
                    /\ \A j \in Idx(op) : j <= i
                    /\ (pc = "done" /\ IsLast(i)) => ret.err = NoErr
                    /\ op = "GetVolumes" =>
                          \/ pc = "List"
                          \/ (i < Len(log) /\ log[i + 1].op = "List")
                          \/ validateBuilderErr = NoBuilderVolume

\* C2 witness: GetVolumes succeeded on its third attempt and List failed with
\* 5xx three times
C2_Witness ==
    /\ pc = "done"
    /\ \E i \in Idx("GetVolumes") : Rank(i) = 3 /\ ~Failed(i)
    /\ \E i \in Idx("List") : Rank(i) = 3 /\ IsServerStatus(log[i].err)

\* C3 - Volume-creation retry budget: CreateVolume is invoked at most 5
\* times in one invocation; a 5xx answer to attempts 1..4 is followed by
\* another attempt; a 5xx answer to attempt 5 makes createBuilder fail with
\* that very error, which EnsureBuilder returns; a successful attempt ends
\* the loop and its volume is the one handed to Launch.
C3_CreateVolumeRetryBudget ==
    /\ Cardinality(Idx("CreateVolume")) <= WriteAttempts
    /\ \A i \in Idx("CreateVolume") :
        /\ (IsServerStatus(log[i].err) /\ Rank(i) < WriteAttempts) =>
                /\ RetryFollows(i)
                /\ pc = "CreateVolume" \/ (\E j \in Idx("CreateVolume") : j > i)
        /\ (IsServerStatus(log[i].err) /\ Rank(i) >= WriteAttempts) =>
                /\ Rank(i) = WriteAttempts
                /\ OnlyCleanupAfter(i)
                /\ pc \in {"DeferDeleteApp", "done"}
                /\ err = log[i].err
                /\ pc = "done" => ret = Returned(Nil, Nil, log[i].err)
        /\ ~Failed(i) =>
                /\ \A j \in Idx("CreateVolume") : j <= i
                /\ volume = log[i].res
                /\ pc = "Launch" \/ (i < Len(log) /\ log[i + 1] .op = "Launch"
                                                  /\ log[i + 1].arg = log[i].res)

\* C3 witness: the fifth CreateVolume attempt failed with 5xx and the
\* invocation has returned
C3_Witness ==
    /\ pc = "done"
    /\ \E i \in Idx("CreateVolume") : Rank(i) = 5 /\ IsServerStatus(log[i].err)

\* C4 - No retry on permanent error: once a remote call has failed with an
\* error that is not a 5xx remote error, the same operation is not invoked
\* again in that invocation, nothing but clean-up calls follow, and the
\* invocation returns a failure.
RemoteOps == {"GetVolumes", "List", "DeleteApp", "CreateApp", "AllocateIPAddress",
              "WaitForApp", "CreateVolume", "Launch"}
C4_NoRetryOnPermanentError ==
    \A i \in DOMAIN log :
        (log[i].op \in RemoteOps /\ Failed(i) /\ ~IsServerStatus(log[i].err)) =>
            /\ \A j \in DOMAIN log : j > i => log[j].op # log[i].op
            /\ OnlyCleanupAfter(i)
            /\ Unwinding
            /\ pc = "done" => (ret.err # NoErr /\ ret.mach = Nil /\ ret.app = Nil)

\* C4 witness: a 404 answered the third CreateVolume attempt, after two 5xx
\* answers, and the invocation has returned
C4_Witness ==
    /\ pc = "done"
    /\ \E i \in Idx("CreateVolume") : Rank(i) = 3 /\ log[i].err = FlapsError(404)

\* C5 - Error classification: in each of the three retry loops a failed
\* attempt that is not the last budgeted one is retried (a sleep and another
\* attempt follow) exactly when its error is a remote error with status in
\* 500..599; any other error ends the loop at once.
Budget(op) == IF op = "CreateVolume" THEN WriteAttempts ELSE ReadAttempts
C5_ErrorClassification ==
    \A i \in DOMAIN log :
        (log[i].op \in {"GetVolumes", "List", "CreateVolume"} /\ Failed(i)
            /\ Rank(i) < Budget(log[i].op)) =>
            /\ IsServerStatus(log[i].err) <=> RetryFollows(i)
            /\ ~IsServerStatus(log[i].err) => (OnlyCleanupAfter(i) /\ Unwinding)

\* C5 witness: the three loops met, in one invocation, a status-599 error
\* (retried) and the List loop then a status-600 error (not retried)
C5_Witness ==
    /\ \E i \in Idx("GetVolumes") : log[i].err = FlapsError(599) /\ RetryFollows(i)
    /\ \E i \in Idx("List") : log[i].err = FlapsError(599) /\ RetryFollows(i)
    /\ \E i \in Idx("List") : log[i].err = FlapsError(600) /\ IsLast(i)
    /\ pc = "done"

\* the invocation returned the error of its last call, or failed to build
\* a flaps client
ReturnedLastError ==
    /\ pc = "done"
    /\ ret.mach = Nil /\ ret.app = Nil
    /\ \/ ret.err = ClientError
       \/ log # <<>> /\ Failed(Len(log)) /\ ret.err = log[Len(log)].err
ReadOnly == \A i \in DOMAIN log : log[i].op \in {"GetVolumes", "List", "Sleep"}
CreateAppBefore(i) == \E c \in Idx("CreateApp") : c < i

\* C6 - Decommission-before-create: when validation of the recorded builder
\* app reported NoBuilderVolume or InvalidMachineCount, the first call that
\* follows is a DeleteApp of the recorded app's name, it is the only
\* DeleteApp issued before any CreateApp, a CreateApp is issued only after
\* it succeeded, and the name passed to CreateApp is not the recorded app's.
C6_DecommissionBeforeCreate ==
    (validateBuilderErr \in {NoBuilderVolume, InvalidMachineCount} /\ pc # "DeleteApp") =>
        /\ builderApp # Nil
        /\ \E d \in Idx("DeleteApp") :
            /\ log[d].arg = builderApp
            /\ {k \in Idx("DeleteApp") : ~CreateAppBefore(k)} = {d}
            /\ \A c \in Idx("CreateApp") :
                /\ d < c
                /\ ~Failed(d)
                /\ log[c].arg # builderApp
                /\ log[c].arg = builderName

\* C6 witness: NoBuilderVolume was reported, the recorded app was deleted, a
\* new app was created and, creation failing, deleted again
C6_Witness ==
    /\ pc = "done"
    /\ validateBuilderErr = NoBuilderVolume
    /\ Idx("CreateApp") # {}
    /\ Cardinality(Idx("DeleteApp")) = 2

\* the recorded builder app had at least one volume and exactly one machine
\* when the invocation started
FastPathCase ==
    /\ builderApp # Nil
    /\ Len(RemoteVolumes(remote0, builderApp)) > 0
    /\ Len(RemoteMachines(remote0, builderApp)) = 1

\* C7 - Fast path has no side effects: when the recorded builder app has a
\* non-empty volume list and exactly one machine, the invocation issues only
\* GetVolumes and List calls, leaves the remote as it was, and returns the
\* recorded app with that machine and a nil error (or, when a read or the
\* client construction fails, that error).
C7_FastPathNoSideEffects ==
    FastPathCase =>
        /\ ReadOnly
        /\ remote = remote0
        /\ pc = "done" =>
            \/ ret = Returned(RemoteMachines(remote0, builderApp)[1], builderApp, NoErr)
            \/ ReturnedLastError
        /\ (pc = "done" /\ \E i \in Idx("List") : ~Failed(i)) =>
            ret = Returned(RemoteMachines(remote0, builderApp)[1], builderApp, NoErr)

\* C7 witness: the recorded app was returned after both reads were retried
C7_Witness ==
    /\ FastPathCase
    /\ pc = "done"
    /\ ret.err = NoErr
    /\ ret.app = builderApp
    /\ \E i \in Idx("GetVolumes") : Failed(i)
    /\ \E i \in Idx("List") : Failed(i)

\* C8 - Idempotence of the fast path: after an invocation that succeeded,
\* the next invocation, given the app the first one returned as the recorded
\* builder app, issues no creation call (indeed nothing but reads) and
\* returns the identical (app, machine) pair (or, when a read or the client
\* construction fails, that error).
C8_FastPathIdempotent ==
    (prev.returned /\ prev.ok /\ builderApp = prev.app /\ pc # "idle") =>
        /\ \A i \in DOMAIN log : log[i].op \notin {"CreateApp", "CreateVolume", "Launch"}
        /\ ReadOnly
        /\ pc = "done" =>
            \/ ret = Returned(prev.mach, prev.app, NoErr)
            \/ ReturnedLastError
        /\ (pc = "done" /\ \E i \in Idx("List") : ~Failed(i)) =>
            ret = Returned(prev.mach, prev.app, NoErr)

\* C8 witness: the first invocation created a worker and the second one
\* returned the same pair
C8_Witness ==
    /\ prev.returned /\ prev.ok /\ prev.created
    /\ builderApp = prev.app
    /\ pc = "done"
    /\ ret = Returned(prev.mach, prev.app, NoErr)

\* C9 - Exactly-one-machine: an invocation that returns the recorded app as
\* valid obtained a machine list of length 1; a machine list of any other
\* length yields InvalidMachineCount, the next call is the DeleteApp of the
\* recorded app, and when that succeeds creation runs.
C9_ExactlyOneMachine ==
    /\ (pc = "done" /\ ret.err = NoErr /\ Idx("CreateApp") = {}) =>
            /\ log # <<>>
            /\ log[Len(log)].op = "List"
            /\ log[Len(log)].res = 1
            /\ Len(RemoteMachines(remote0, builderApp)) = 1
    /\ \A i \in Idx("List") :
        (~Failed(i) /\ log[i].res # 1) =>
            /\ validateBuilderErr = InvalidMachineCount
            /\ \/ pc = "DeleteApp" /\ IsLast(i)
               \/ /\ i < Len(log)
                  /\ log[i + 1].op = "DeleteApp"
                  /\ log[i + 1].arg = builderApp
                  /\ Failed(i + 1) => ReturnedLastError /\ IsLast(i + 1)
                  /\ ~Failed(i + 1) =>
                        \/ pc \in {"NewClient", "CreateApp"} /\ IsLast(i + 1)
                        \/ pc = "done" /\ ret.err = ClientError /\ IsLast(i + 1)
                        \/ i + 2 <= Len(log) /\ log[i + 2].op = "CreateApp"

\* C9 witness: two machines were listed, the recorded app was deleted and a
\* new worker was created and returned
C9_Witness ==
    /\ pc = "done"
    /\ ret.err = NoErr
    /\ \E i \in Idx("List") : ~Failed(i) /\ log[i].res = 2
    /\ \E i \in Idx("Launch") : ~Failed(i)

\* C10 - Validation order and short-circuit: every List call comes after
\* all GetVolumes calls and after a GetVolumes call that returned at least
\* one volume; when GetVolumes returned no volume or failed for good, no
\* List call is issued.
VolumeListingFailed ==
    \E j \in Idx("GetVolumes") :
        Failed(j) /\ (~IsServerStatus(log[j].err) \/ Rank(j) >= ReadAttempts)
C10_VolumesBeforeMachines ==
    /\ \A i \in Idx("List") :
        /\ \A j \in Idx("GetVolumes") : j < i
        /\ \E j \in Idx("GetVolumes") : ~Failed(j) /\ log[j].res > 0
    /\ pc = "List" => \E j \in Idx("GetVolumes") : ~Failed(j) /\ log[j].res > 0
    /\ (\E j \in Idx("GetVolumes") : ~Failed(j) /\ log[j].res = 0) =>
            Idx("List") = {} /\ pc # "List"
    /\ VolumeListingFailed => Idx("List") = {} /\ pc # "List"

\* C10 witness: GetVolumes returned no volume and the invocation went on to
\* create a new worker without any List call
C10_Witness ==
    /\ \E j \in Idx("GetVolumes") : ~Failed(j) /\ log[j].res = 0
    /\ Idx("Launch") # {}
    /\ pc = "done"

\* C11 - Validation never mutates remote state: a step of validateBuilder
\* (a pass of either read loop) issues only GetVolumes and List calls and
\* leaves the remote's apps, volumes and machines and the recorded builder
\* app as they were; as long as no step after validation has acted, the
\* remote is what it was when the invocation started, whatever the outcome.
ReadOps == {"GetVolumes", "List", "Sleep"}
ValidationOnly == pc # "idle" /\ builderName = Nil /\ Idx("DeleteApp") = {}
ValidationStepFrame ==
    pc \in {"GetVolumes", "List"} =>
        /\ remote' = remote
        /\ orgApp' = orgApp
        /\ nextVolume' = nextVolume
        /\ nextMachine' = nextMachine
        /\ Len(log') > Len(log)
        /\ \A i \in DOMAIN log' : i > Len(log) => log'[i].op \in ReadOps
C11_ValidationReadOnly ==
    /\ [](ValidationOnly => (ReadOnly /\ remote = remote0 /\ orgApp = builderApp))
    /\ [][ValidationStepFrame]_vars

\* C11 witness: validation ended with InvalidMachineCount after retried
\* reads, and nothing but reads was issued
C11_Witness ==
    /\ pc = "DeleteApp"
    /\ validateBuilderErr = InvalidMachineCount
    /\ \E i \in Idx("GetVolumes") : Failed(i)
    /\ \E i \in Idx("List") : Failed(i)
    /\ remote = remote0

\* C12 - First-run path: with no recorded builder app validation yields
\* NoBuilderApp, no GetVolumes and no List call is issued, no DeleteApp is
\* issued before CreateApp (the first call is CreateApp), and NoBuilderApp
\* is never the error returned.
C12_FirstRunPath ==
    (builderApp = Nil /\ pc # "idle") =>
        /\ validateBuilderErr = NoBuilderApp
        /\ Idx("GetVolumes") = {}
        /\ Idx("List") = {}
        /\ \A d \in Idx("DeleteApp") : CreateAppBefore(d) /\ log[d].arg = builderName
        /\ log # <<>> => log[1].op = "CreateApp"
        /\ log = <<>> => \/ pc \in {"NewClient", "CreateApp"}
                         \/ pc = "done" /\ ret.err = ClientError
        /\ ret.err # NoBuilderApp

\* C12 witness: an invocation without recorded app created a worker
C12_Witness ==
    /\ builderApp = Nil
    /\ pc = "done"
    /\ ret.err = NoErr
    /\ ret.app = builderName
    /\ log[1].op = "CreateApp"

\* C13 - Decommission failure is fatal: when the DeleteApp of the invalid
\* recorded app fails, it is the last call of the invocation, which returns
\* that error; no name is generated and no creation call is issued.
C13_DecommissionFailureFatal ==
    \A d \in Idx("DeleteApp") :
        (Failed(d) /\ ~CreateAppBefore(d)) =>
            /\ log[d].arg = builderApp
            /\ IsLast(d)
            /\ pc = "done"
            /\ ret = Returned(Nil, Nil, log[d].err)
            /\ builderName = Nil
            /\ Idx("CreateApp") = {}

\* C13 witness: the decommissioning DeleteApp failed with a 5xx status
C13_Witness ==
    /\ pc = "done"
    /\ validateBuilderErr = NoBuilderVolume
    /\ \E d \in Idx("DeleteApp") : IsServerStatus(log[d].err) /\ log[d].arg = builderApp

\* C14 - Per-step compensation in createBuilder: a failed CreateApp is the
\* last call (no DeleteApp, no DeleteVolume follows); after a failed
\* AllocateIPAddress, WaitForApp or final CreateVolume attempt exactly one
\* call follows, the DeleteApp of the new app's name, and no DeleteVolume is
\* issued; in each case an error and no app or machine is returned.
C14_PerStepCompensation ==
    /\ \A c \in Idx("CreateApp") :
        Failed(c) =>
            /\ IsLast(c)
            /\ Idx("DeleteVolume") = {}
            /\ pc = "done"
            /\ ret = Returned(Nil, Nil, log[c].err)
    /\ \A i \in DOMAIN log :
        (log[i].op \in {"AllocateIPAddress", "WaitForApp", "CreateVolume"}
            /\ Failed(i) /\ ~RetryFollows(i)) =>
            /\ Idx("DeleteVolume") = {}
            /\ err # NoErr
            /\ \/ pc = "DeferDeleteApp" /\ IsLast(i)
               \/ /\ pc = "done"
                  /\ Len(log) = i + 1
                  /\ log[i + 1].op = "DeleteApp"
                  /\ log[i + 1].arg = builderName
                  /\ log[i + 1].arg # builderApp
                  /\ ret = Returned(Nil, Nil, err)

\* C14 witness: volume creation gave up after five 5xx answers and the new
\* app was deleted, after the recorded one had been decommissioned
C14_Witness ==
    /\ pc = "done"
    /\ \E i \in Idx("CreateVolume") : Rank(i) = 5 /\ Failed(i)
    /\ Cardinality(Idx("DeleteApp")) = 2

\* C15 - Compensations fire in reverse order of registration: after a
\* failed Launch the calls that follow are exactly DeleteVolume of the
\* created volume and then DeleteApp of the new app, once each.
C15_ReverseOrderCompensation ==
    \A i \in Idx("Launch") :
        Failed(i) =>
            \/ pc = "DeferDeleteVolume" /\ IsLast(i)
            \/ /\ Len(log) >= i + 1
               /\ log[i + 1].op = "DeleteVolume"
               /\ log[i + 1].arg = volume
               /\ Cardinality(Idx("DeleteVolume")) = 1
               /\ \/ pc = "DeferDeleteApp" /\ IsLast(i + 1)
                  \/ /\ pc = "done"
                     /\ Len(log) = i + 2
                     /\ log[i + 2].op = "DeleteApp"
                     /\ log[i + 2].arg = builderName
                     /\ Cardinality({d \in Idx("DeleteApp") : log[d].arg = builderName}) = 1

\* C15 witness: Launch failed and both clean-ups have run
C15_Witness ==
    /\ pc = "done"
    /\ \E i \in Idx("Launch") : Failed(i) /\ Len(log) = i + 2

\* C16 - No rollback on success: once Launch has succeeded it stays the
\* last call of the invocation: no DeleteVolume and no DeleteApp of the new
\* app is issued, the new app keeps its volume and machine, and the new
\* machine and app are returned with a nil error.
C16_NoRollbackOnSuccess ==
    \A i \in Idx("Launch") :
        ~Failed(i) =>
            /\ IsLast(i)
            /\ Idx("DeleteVolume") = {}
            /\ \A d \in Idx("DeleteApp") : log[d].arg # builderName
            /\ err = NoErr
            /\ pc \in {"DeferDeleteVolume", "DeferDeleteApp", "done"}
            /\ pc = "done" => ret = Returned(log[i].res, builderName, NoErr)
            /\ RemoteVolumes(remote, builderName) = <<volume>>
            /\ RemoteMachines(remote, builderName) = <<log[i].res>>

\* C16 witness: a worker was returned after CreateVolume had been retried
C16_Witness ==
    /\ pc = "done"
    /\ ret.err = NoErr
    /\ \E i \in Idx("Launch") : ~Failed(i)
    /\ \E i \in Idx("CreateVolume") : Failed(i)

\* the calls of the two deferred functions, and the creation step that
\* failed: the last call that is not one of them
CleanupCalls ==
    LET created == Idx("CreateApp")
    IN {k \in DOMAIN log : log[k].op \in CleanupOps /\ \E c \in created : c < k}
PrimaryIdx ==
    LET others == DOMAIN log \ CleanupCalls
    IN CHOOSE i \in others : \A j \in others : j <= i
PrimaryError ==
    IF log[PrimaryIdx].op = "WaitForApp" THEN Wrapf(log[PrimaryIdx].err)
    ELSE log[PrimaryIdx].err

\* C17 - A compensation failure does not replace the primary error: when a
\* clean-up call fails, err is still the error of the creation step that
\* failed, that is the error EnsureBuilder returns, and a failed
\* DeleteVolume is still followed by the DeleteApp of the new app.
C17_CompensationFailureKeepsPrimary ==
    \A k \in CleanupCalls :
        Failed(k) =>
            /\ Failed(PrimaryIdx)
            /\ log[PrimaryIdx].op \in {"AllocateIPAddress", "WaitForApp", "CreateVolume", "Launch"}
            /\ err = PrimaryError
            /\ pc = "done" => ret = Returned(Nil, Nil, PrimaryError)
            /\ log[k].op = "DeleteVolume" =>
                 \/ pc = "DeferDeleteApp" /\ IsLast(k)
                 \/ /\ pc = "done"
                    /\ Len(log) = k + 1
                    /\ log[k + 1].op = "DeleteApp"
                    /\ log[k + 1].arg = builderName

\* C17 witness: Launch failed with an error without status, both clean-up
\* calls failed with a status, and the Launch error was returned
C17_Witness ==
    /\ pc = "done"
    /\ ret.err = OtherError
    /\ \E i \in Idx("Launch") : log[i].err = OtherError
    /\ \E k \in Idx("DeleteVolume") : log[k].err = FlapsError(404)
    /\ \E k \in Idx("DeleteApp") : log[k].err = FlapsError(500) /\ IsLast(k)

\* C18 - A validation defect is never the caller-visible outcome: the error
\* EnsureBuilder returns is never NoBuilderApp, NoBuilderVolume or
\* InvalidMachineCount; after a defect the invocation goes on to
\* decommissioning or creation.
C18_DefectNeverReturned ==
    /\ ret.err \notin {NoBuilderApp, NoBuilderVolume, InvalidMachineCount}
    /\ ~AsValidateBuilderError(ret.err)
    /\ err \notin {NoBuilderApp, NoBuilderVolume, InvalidMachineCount}
    /\ (validateBuilderErr # NoErr /\ pc = "done") =>
            (builderName # Nil \/ Idx("DeleteApp") # {})

\* C18 witness: validation reported InvalidMachineCount and the invocation
\* returned an error
C18_Witness ==
    /\ pc = "done"
    /\ validateBuilderErr = InvalidMachineCount
    /\ ret.err # NoErr

\* C19 - A remote failure during validation is fatal: when GetVolumes or
\* List fails with a permanent error or fails its third attempt, that call
\* is the last of the invocation, EnsureBuilder returns its error, and the
\* recorded app is neither deleted nor replaced.
C19_ValidationFailureFatal ==
    \A i \in Idx("GetVolumes") \cup Idx("List") :
        (Failed(i) /\ (~IsServerStatus(log[i].err) \/ Rank(i) >= ReadAttempts)) =>
            /\ IsLast(i)
            /\ pc = "done"
            /\ ret = Returned(Nil, Nil, log[i].err)
            /\ ReadOnly
            /\ builderName = Nil
            /\ remote = remote0
            /\ orgApp = builderApp

\* C19 witness: List failed three times with a 5xx status
C19_Witness ==
    /\ pc = "done"
    /\ \E i \in Idx("List") : Rank(i) = 3 /\ IsServerStatus(log[i].err) /\ IsLast(i)

\* a call of a retry loop that used up the loop's attempt budget, and a
\* call of a retry loop that failed with an error the loop does not retry
LoopOps == {"GetVolumes", "List", "CreateVolume"}
Exhausted(i) ==
    /\ log[i].op \in LoopOps
    /\ IsServerStatus(log[i].err)
    /\ Rank(i) >= Budget(log[i].op)
Permanent(i) ==
    /\ log[i].op \in LoopOps
    /\ Failed(i)
    /\ ~IsServerStatus(log[i].err)
\* an error carrying a tag: the observed error with text added to it
Untagged(e) == [e EXCEPT !.wrap = ""]
CarriesTag(e, observed) == Untagged(e) = observed /\ e # observed

\* C20 as stated - Exhausted retries are distinguishable from a permanent
\* failure: the error surfaced when a retry loop exhausts its budget is the
\* last observed error carrying a tag.
C20_ExhaustedRetriesTagged ==
    \A i \in DOMAIN log :
        (Exhausted(i) /\ pc = "done") => CarriesTag(ret.err, log[i].err)

\* C20 as amended - when a retry loop gives up because its attempt budget
\* is exhausted, the error surfaced is the last observed error unchanged,
\* with no tag added; it is a 5xx remote error, and a retry loop stopped by
\* a single permanent error surfaces that error, which never is one.
C20_ExhaustedRetriesUntagged ==
    \A i \in DOMAIN log :
        /\ (Exhausted(i) /\ pc = "done") =>
                /\ Rank(i) = Budget(log[i].op)
                /\ ret = Returned(Nil, Nil, log[i].err)
                /\ ~CarriesTag(ret.err, log[i].err)
                /\ IsServerStatus(ret.err)
        /\ (Permanent(i) /\ pc = "done") =>
                /\ ret = Returned(Nil, Nil, log[i].err)
                /\ ~IsServerStatus(ret.err)

\* C20 witness: GetVolumes failed its third attempt with a 5xx status and
\* that error was returned as it was observed
C20_Witness ==
    /\ pc = "done"
    /\ \E i \in Idx("GetVolumes") : Exhausted(i) /\ ret.err = log[i].err

\* ctx was cancelled while a retry loop was between two attempts: the last
\* thing the invocation had done was the sleep that follows a failed attempt
CancelledBetweenAttempts ==
    /\ cancelAt >= 2
    /\ cancelAt <= Len(log)
    /\ log[cancelAt].op = "Sleep"

\* C21 as stated - Cancellation is honoured between retry attempts: after
\* ctx was cancelled between two attempts the loop makes no further
\* attempt and the invocation reports the cancellation.
C21_CancellationHonoured ==
    CancelledBetweenAttempts =>
        /\ \A i \in DOMAIN log : i > cancelAt => log[i].op \notin LoopOps
        /\ pc = "done" => ret.err = Canceled

\* C21 as amended - the retry loops do not test ctx: cancelled between two
\* attempts, the loop still makes the next attempt, with the cancelled ctx,
\* and handles its result like any other; a cancellation is returned only
\* as the error of a call that failed with it, ending the loop the way a
\* permanent failure does.
C21_CancellationNotChecked ==
    CancelledBetweenAttempts =>
        /\ \/ IsLast(cancelAt) /\ pc = log[cancelAt - 1].op /\ ~ret.returned
           \/ Len(log) > cancelAt /\ log[cancelAt + 1].op = log[cancelAt - 1].op
        /\ \A i \in DOMAIN log :
              (log[i].op \in LoopOps /\ log[i].err = Canceled) =>
                  /\ i > cancelAt
                  /\ ~RetryFollows(i)
                  /\ OnlyCleanupAfter(i)
        /\ (pc = "done" /\ ret.err = Canceled) =>
              \E i \in DOMAIN log : i > cancelAt /\ log[i].err = Canceled

\* C21 witness: cancelled during the sleep after a failed GetVolumes, the
\* loop made its next attempt, which succeeded, and the invocation went on
\* to return a builder
C21_Witness ==
    /\ CancelledBetweenAttempts
    /\ log[cancelAt - 1].op = "GetVolumes"
    /\ Len(log) > cancelAt
    /\ log[cancelAt + 1].op = "GetVolumes"
    /\ log[cancelAt + 1].err = NoErr
    /\ pc = "done"
    /\ ret.err = NoErr

\* the phase a remote call belongs to
Phase(i) ==
    IF log[i].op \in {"GetVolumes", "List"} THEN "validate"
    ELSE IF log[i].op = "DeleteApp" /\ ~CreateAppBefore(i) THEN "decommission"
    ELSE "create"
\* a remote call failed and made the invocation fail
CauseKnown == DOMAIN log \ CleanupCalls # {} /\ Failed(PrimaryIdx)

\* C22 as stated - every failure EnsureBuilder returns is the original
\* cause annotated with the phase it occurred in: validate, decommission
\* or create.
C22_PhaseAnnotated ==
    (pc = "done" /\ ret.err # NoErr /\ CauseKnown) =>
        /\ Untagged(ret.err) = log[PrimaryIdx].err
        /\ ret.err.wrap = Phase(PrimaryIdx)

\* C22 as amended - every failure EnsureBuilder returns is the original
\* cause as the failing call (or the construction of the flaps client)
\* returned it, with no phase annotation; only a WaitForApp error is
\* wrapped, with the text "waiting for app".
C22_CauseReturnedUnannotated ==
    (pc = "done" /\ ret.err # NoErr) =>
        \/ /\ ret.err = ClientError
           /\ log # <<>> => ~Failed(Len(log))
        \/ /\ CauseKnown
           /\ Untagged(ret.err) = log[PrimaryIdx].err
           /\ ret.err.wrap = (IF log[PrimaryIdx].op = "WaitForApp"
                              THEN "waiting for app" ELSE "")
           /\ ret.err.wrap \notin {"validate", "decommission", "create"}

\* C22 witness: a failure of each phase's kind is returned; here WaitForApp
\* failed after a decommissioning and its wrapped error was returned
C22_Witness ==
    /\ pc = "done"
    /\ ret.err = Wrapf(FlapsError(404))
    /\ \E i \in Idx("DeleteApp") : Phase(i) = "decommission" /\ ~Failed(i)
    /\ \E i \in Idx("WaitForApp") : log[i].err = FlapsError(404)

\* the remote operations outside the three retry loops, clean-ups excepted
SingleOps == {"CreateApp", "AllocateIPAddress", "WaitForApp", "Launch", "DeleteApp"}
SingleCalls ==
    LET cleanups == CleanupCalls
    IN {i \in DOMAIN log : log[i].op \in SingleOps /\ i \notin cleanups}

\* C23 as stated - all remote I/O goes through the retrying call: a 5xx
\* failure of CreateApp, AllocateIPAddress, Launch or the decommissioning
\* DeleteApp is followed by another attempt of the operation.
C23_AllCallsRetried ==
    LET single == SingleCalls
    IN \A i \in single :
        (log[i].op # "WaitForApp" /\ IsServerStatus(log[i].err)
            /\ Rank(i) = 1 /\ pc = "done") =>
                \E j \in single : j > i /\ log[j].op = log[i].op

\* C23 as amended - only GetVolumes, List and CreateVolume are retried:
\* CreateApp, AllocateIPAddress, WaitForApp, Launch and the decommissioning
\* DeleteApp are attempted once, and their first failure, a 5xx one
\* included, fails the call with that error, no sleep and nothing but
\* clean-up calls following.
C23_OnlyLoopsRetry ==
    /\ LET single == SingleCalls
       IN \A i \in single :
          /\ \A j \in single : log[j].op = log[i].op => j = i
          /\ Failed(i) =>
                /\ ~RetryFollows(i)
                /\ OnlyCleanupAfter(i)
                /\ Unwinding
                /\ PrimaryIdx = i
                /\ pc = "done" => ret = Returned(Nil, Nil, PrimaryError)
    /\ \A i \in DOMAIN log :
          (log[i].op \in LoopOps /\ IsServerStatus(log[i].err)
              /\ Rank(i) < Budget(log[i].op)) => RetryFollows(i)

\* C23 witness: CreateVolume was retried after a 5xx answer, and a 5xx
\* answer to Launch then failed the call at once
C23_Witness ==
    /\ pc = "done"
    /\ \E i \in Idx("CreateVolume") : IsServerStatus(log[i].err) /\ RetryFollows(i)
    /\ \E i \in Idx("Launch") : IsServerStatus(log[i].err) /\ ret.err = log[i].err

\* the apps that hold a worker: one volume and one machine
WorkerApps(r) == {n \in DOMAIN r : Len(r[n].vols) = 1 /\ Len(r[n].machs) = 1}
\* an invocation after a race in which two racing calls each created a
\* worker, these two being the builder apps that exist
AfterRaceOfTwo ==
    /\ run > Racers
    /\ builderApp # Nil
    /\ Cardinality(WorkerApps(remote0)) = 2
    /\ DOMAIN remote0 = WorkerApps(remote0)
\* the invocation's reads all succeeded
ReadsSucceeded == \A i \in Idx("GetVolumes") \cup Idx("List") : ~RetryFollows(i) => ~Failed(i)

\* C24 as stated - self-healing after a race: the call that follows two
\* racing calls which each created a worker finds InvalidMachineCount,
\* deletes the recorded app and creates a new one.
C24_DuplicateDetected ==
    (AfterRaceOfTwo /\ pc = "done" /\ Idx("List") # {} /\ ReadsSucceeded) =>
        /\ validateBuilderErr = InvalidMachineCount
        /\ \E i \in Idx("DeleteApp") : log[i].arg = builderApp

\* C24 as amended - no self-healing after a race: each racing call created
\* its worker in an app of its own name, and the call that follows
\* validates only the recorded app, which lists exactly one machine; it
\* never finds InvalidMachineCount, issues reads only, returns the recorded
\* app with its machine (or the error of a failed read or client
\* construction), and leaves both workers in place.
C24_DuplicateUndetected ==
    AfterRaceOfTwo =>
        /\ builderApp \in WorkerApps(remote0)
        /\ validateBuilderErr = NoErr
        /\ ReadOnly
        /\ remote = remote0
        /\ WorkerApps(remote) = WorkerApps(remote0)
        /\ pc \in {"GetVolumes", "List", "done"}
        /\ pc = "done" =>
              \/ ReturnedLastError
              \/ /\ ReadsSucceeded
                 /\ ret = Returned(RemoteMachines(remote0, builderApp)[1], builderApp, NoErr)

\* C24 witness: after the race left two workers, the next call accepted
\* the recorded one
C24_Witness ==
    /\ AfterRaceOfTwo
    /\ pc = "done"
    /\ ret.err = NoErr
    /\ ret.app = builderApp
    /\ Cardinality(DOMAIN remote) = 2

\* C25 - At most one builder app per organization: in a sequential series
\* of EnsureBuilder calls, each given the builder app the organization
\* records at that time, the number of builder apps that exist is 0 or 1
\* at every point, and an app that exists is the recorded one.
C25_AtMostOneBuilderApp ==
    /\ Cardinality(DOMAIN remote) \in {0, 1}
    /\ DOMAIN remote \subseteq {orgApp}
    /\ pc \notin {"idle", "done"} => builderApp \in {Nil} \cup DOMAIN remote0

\* C25 witness: the first invocation failed and its app clean-up failed
\* too; the second deleted the app left behind and created another, which
\* is the only one
C25_Witness ==
    /\ run = 2
    /\ prev.returned /\ ~prev.ok
    /\ builderApp = Haikunator(2)
    /\ \E i \in Idx("DeleteApp") : log[i].arg = builderApp /\ ~Failed(i)
    /\ \E i \in Idx("Launch") : ~Failed(i)
    /\ DOMAIN remote = {builderName}

\* C26 as stated - validity is judged on active machines: the recorded app
\* is accepted exactly when it has one active machine; machines that are
\* not active do not count.
C26_ActiveMachinesCounted ==
    \A i \in Idx("List") :
        (~Failed(i) /\ pc = "done") =>
            (validateBuilderErr = NoErr <=>
                Len(ActiveMachines(RemoteMachines(remote0, builderApp))) = 1)

\* C26 as amended - validity is judged on all machines List returns: the
\* recorded app is accepted exactly when the listing holds one machine,
\* active or not, and that machine is returned; a listing of two machines
\* is rejected with InvalidMachineCount even when only one of them is
\* active.
C26_AllMachinesCounted ==
    \A i \in Idx("List") :
        ~Failed(i) =>
            LET machines == RemoteMachines(remote0, builderApp)
            IN /\ log[i].res = Len(machines)
               /\ Len(machines) = 1 =>
                    /\ validateBuilderErr = NoErr
                    /\ pc = "done"
                    /\ ret = Returned(machines[1], builderApp, NoErr)
               /\ Len(machines) # 1 =>
                    /\ validateBuilderErr = InvalidMachineCount
                    /\ ret.app # builderApp

\* C26 witness: the recorded app's only machine is not active, and the app
\* was accepted and returned with that machine
C26_Witness ==
    /\ pc = "done"
    /\ ret.err = NoErr
    /\ ret.app = builderApp
    /\ ~IsActive(ret.mach)
    /\ ReadOnly

\* calls of op issued by the invocation
Count(op) == Cardinality(Idx(op))
CallBounds ==
    /\ Count("GetVolumes") <= ReadAttempts
    /\ Count("List") <= ReadAttempts
    /\ Count("CreateVolume") <= WriteAttempts
    /\ \A op \in {"CreateApp", "AllocateIPAddress", "WaitForApp", "Launch", "DeleteVolume"} :
          Count(op) <= 1
    /\ Count("DeleteApp") <= 2
    /\ Cardinality({i \in Idx("DeleteApp") : log[i].arg = builderApp}) <= 1
    /\ Cardinality({i \in Idx("DeleteApp") : log[i].arg = builderName}) <= 1

\* C27 - Bounded calls and termination: when every remote call returns,
\* each invocation that has started returns; and at every point GetVolumes
\* and List have been called at most 3 times each, CreateVolume at most 5
\* times, CreateApp, AllocateIPAddress, WaitForApp, Launch and DeleteVolume
\* at most once, DeleteApp at most twice (once per app name).
C27_BoundedCallsAndTermination ==
    /\ []CallBounds
    /\ \A r \in 1..MaxRuns : (run = r /\ pc # "done") ~> (run = r /\ pc = "done")

\* C27 witness: an invocation that used every budget in full: three
\* GetVolumes, three List, both DeleteApp, five CreateVolume
C27_Witness ==
    /\ pc = "done"
    /\ Count("GetVolumes") = 3
    /\ Count("List") = 3
    /\ Count("CreateVolume") = 5
    /\ Count("DeleteApp") = 2

\* C28 - All-or-nothing result: whatever EnsureBuilder returns is either a
\* machine and an app with a nil error, the machine being one of that
\* app, or no machine and no app with a non-nil error; an app created by
\* an invocation that fails is not returned.
C28_AllOrNothingResult ==
    ret.returned =>
        \/ /\ ret.err = NoErr
           /\ ret.mach # Nil
           /\ ret.app # Nil
           /\ ret.app \in DOMAIN remote
           /\ \E k \in DOMAIN remote[ret.app].machs : remote[ret.app].machs[k] = ret.mach
        \/ /\ ret.err # NoErr
           /\ ret.mach = Nil
           /\ ret.app = Nil

\* C28 witness: CreateApp and CreateVolume succeeded, Launch failed, and
\* the invocation returned neither the app nor a machine
C28_Witness ==
    /\ pc = "done"
    /\ \E i \in Idx("CreateVolume") : ~Failed(i)
    /\ \E i \in Idx("Launch") : Failed(i)
    /\ ret = Returned(Nil, Nil, err)
    /\ builderName # Nil

\* the 5xx failures of op so far in this invocation
TransientFailures(op) == Cardinality({i \in Idx(op) : IsServerStatus(log[i].err)})

\* C29 - Retry budgets are independent per operation: the counter a loop
\* tests holds the 5xx failures of its own operation only, so each of
\* GetVolumes, List and CreateVolume has its full budget whatever the
\* other loops consumed: a 5xx failure short of the operation's own budget
\* is always followed by another attempt.
C29_IndependentBudgets ==
    /\ pc \in LoopOps => numRetries = TransientFailures(pc)
    /\ \A i \in DOMAIN log :
          (log[i].op \in LoopOps /\ IsServerStatus(log[i].err)) =>
              /\ Rank(i) <= Budget(log[i].op)
              /\ Rank(i) < Budget(log[i].op) =>
                    /\ RetryFollows(i)
                    /\ pc = log[i].op \/ (\E j \in Idx(log[i].op) : j > i)

\* C29 witness: GetVolumes and List each failed twice with 5xx and
\* succeeded on the third attempt, and CreateVolume then failed four times
\* and succeeded on the fifth
C29_Witness ==
    /\ TransientFailures("GetVolumes") = 2
    /\ TransientFailures("List") = 2
    /\ TransientFailures("CreateVolume") = 4
    /\ \E i \in Idx("List") : Rank(i) = 3 /\ ~Failed(i)
    /\ \E i \in Idx("CreateVolume") : Rank(i) = 5 /\ ~Failed(i)

\* the sleeps that follow a call of op
SleepsAfter(op) == {i \in Idx("Sleep") : i > 1 /\ log[i - 1].op = op}

\* C30 - Backoff sleeps occur only between attempts: every sleep lasts one
\* second, follows a 5xx failure of a retried operation that was short of
\* its budget, and is followed by another attempt of that operation; no
\* sleep follows a success, a permanent failure or the last budgeted
\* attempt; an invocation sleeps at most twice per read operation and at
\* most four times for CreateVolume.
C30_SleepOnlyBetweenAttempts ==
    /\ \A i \in Idx("Sleep") :
          /\ log[i].arg = 1
          /\ i > 1
          /\ log[i - 1].op \in LoopOps
          /\ IsServerStatus(log[i - 1].err)
          /\ Rank(i - 1) < Budget(log[i - 1].op)
          /\ \/ IsLast(i) /\ pc = log[i - 1].op
             \/ i < Len(log) /\ log[i + 1].op = log[i - 1].op
    /\ \A i \in DOMAIN log :
          (~IsServerStatus(log[i].err) \/ log[i].op \notin LoopOps
              \/ Rank(i) >= Budget(log[i].op)) => ~RetryFollows(i)
    /\ Cardinality(SleepsAfter("GetVolumes")) <= ReadAttempts - 1
    /\ Cardinality(SleepsAfter("List")) <= ReadAttempts - 1
    /\ Cardinality(SleepsAfter("CreateVolume")) <= WriteAttempts - 1
    /\ Cardinality(Idx("Sleep")) <= 2 * (ReadAttempts - 1) + WriteAttempts - 1

\* C30 witness: two sleeps in the GetVolumes loop, four in the CreateVolume
\* loop, and none after the fifth CreateVolume failure, which is followed
\* by the app clean-up at once
C30_Witness ==
    /\ pc = "done"
    /\ Cardinality(SleepsAfter("GetVolumes")) = 2
    /\ Cardinality(SleepsAfter("CreateVolume")) = 4
    /\ \E i \in Idx("CreateVolume") :
          /\ Rank(i) = 5
          /\ IsServerStatus(log[i].err)
          /\ i < Len(log)
          /\ log[i + 1].op = "DeleteApp"

\* the calls of createBuilder that create or wait for a resource, the
\* DeleteApp calls of the two kinds, and the case of C31: the recorded app
\* was deleted and the invocation returned after a creation call failed
CreationOps == {"CreateApp", "AllocateIPAddress", "WaitForApp", "CreateVolume", "Launch"}
RollbackDeleteApps == {k \in CleanupCalls : log[k].op = "DeleteApp"}
DecommissionCalls == Idx("DeleteApp") \ CleanupCalls
Decommissioned == \E d \in DecommissionCalls : ~Failed(d)
RecreationFailed ==
    /\ pc = "done"
    /\ Decommissioned
    /\ log[PrimaryIdx].op \in CreationOps
    /\ Failed(PrimaryIdx)

\* C31 as claimed - Decommissioning is not undone when recreation fails:
\* when the recorded app was deleted and creation then fails at any step,
\* the creation error is returned, the old app stays deleted, a rollback
\* DeleteApp of the new app is issued, no call re-creates the old app, the
\* rollback DeleteApp targets only the new name and the decommissioning
\* DeleteApp only the recorded app's name.
C31_RollbackAfterAnyFailedStep ==
    RecreationFailed =>
        /\ ret = Returned(Nil, Nil, PrimaryError)
        /\ builderApp \notin DOMAIN remote
        /\ RollbackDeleteApps # {}
        /\ \A c \in Idx("CreateApp") : log[c].arg # builderApp
        /\ \A k \in RollbackDeleteApps : log[k].arg = builderName /\ log[k].arg # builderApp
        /\ \A d \in DecommissionCalls : log[d].arg = builderApp /\ log[d].arg # builderName

\* C31 - Decommissioning is not undone when recreation fails: the
\* decommissioning DeleteApp targets only the recorded app's name; once it
\* has succeeded the old app stays deleted and unrecorded, every creation
\* call and every rollback DeleteApp names the newly generated name, which
\* is not the old one; when creation then fails, the creation error is
\* returned, and the rollback DeleteApp of the new app is issued exactly
\* once unless the failed step is CreateApp itself, after which no call
\* follows.
C31_DecommissionNotUndone ==
    /\ \A d \in DecommissionCalls : log[d].arg = builderApp /\ builderApp # Nil
    /\ Decommissioned =>
        /\ Cardinality(DecommissionCalls) = 1
        /\ builderApp \notin DOMAIN remote
        /\ orgApp # builderApp
        /\ builderName # builderApp
        /\ \A i \in DOMAIN log :
              log[i].op \in CreationOps \ {"Launch"} => log[i].arg = builderName
        /\ \A k \in RollbackDeleteApps : log[k].arg = builderName
        /\ RecreationFailed =>
              /\ ret = Returned(Nil, Nil, PrimaryError)
              /\ IF log[PrimaryIdx].op = "CreateApp"
                 THEN RollbackDeleteApps = {} /\ IsLast(PrimaryIdx)
                 ELSE /\ Cardinality(RollbackDeleteApps) = 1
                      /\ \A k \in RollbackDeleteApps : IsLast(k)

\* C31 witness: the recorded app was deleted, the new app was created, a
\* later creation call failed and the new app was deleted again
C31_Witness ==
    /\ RecreationFailed
    /\ log[PrimaryIdx].op # "CreateApp"
    /\ \E k \in RollbackDeleteApps : ~Failed(k)
    /\ DOMAIN remote = {}

\* the place of a creation call in createBuilder, and the creation calls of
\* the current invocation
StepNo(op) ==
    CASE op = "CreateApp" -> 1
      [] op = "AllocateIPAddress" -> 2
      [] op = "WaitForApp" -> 3
      [] op = "CreateVolume" -> 4
      [] op = "Launch" -> 5
CreationCalls == {i \in DOMAIN log : log[i].op \in CreationOps}

\* C32 - Creation steps are strictly ordered and gated: the creation calls
\* of an invocation occur in the order CreateApp, AllocateIPAddress,
\* WaitForApp, CreateVolume, Launch; a call is issued only after a
\* successful call of every earlier step; no step is called again after it
\* succeeded, and only CreateVolume is called again after it failed; the
\* volume the Launch request mounts is the one the successful CreateVolume
\* call of the same invocation returned, attached to the new app.
C32_OrderedGatedCreation ==
    LET calls == CreationCalls
    IN /\ \A i, j \in calls :
            i < j =>
              /\ StepNo(log[i].op) <= StepNo(log[j].op)
              /\ log[i].op = log[j].op => (log[i].op = "CreateVolume" /\ Failed(i))
       /\ \A j \in calls :
            \A s \in 1..(StepNo(log[j].op) - 1) :
                \E i \in calls : i < j /\ StepNo(log[i].op) = s /\ ~Failed(i)
       /\ \A j \in calls : \A i \in calls : (i < j /\ Failed(i)) => log[i].op = "CreateVolume"
                                                                     /\ RetryFollows(i)
       /\ \A l \in Idx("Launch") :
            /\ log[l].arg # Nil
            /\ Cardinality({v \in Idx("CreateVolume") : ~Failed(v)}) = 1
            /\ \E v \in Idx("CreateVolume") :
                  /\ v < l
                  /\ ~Failed(v)
                  /\ log[v].res = log[l].arg
                  /\ log[v].arg = builderName
            /\ \A n \in DOMAIN remote0 : \A k \in DOMAIN remote0[n].vols :
                  remote0[n].vols[k] # log[l].arg

\* C32 witness: a second invocation replaced an invalid builder that held
\* volume 1, retried CreateVolume and launched the machine on volume 2,
\* the one its successful CreateVolume call returned
C32_Witness ==
    /\ run = 2
    /\ pc = "done"
    /\ ret.err = NoErr
    /\ \E v \in Idx("CreateVolume") : Failed(v)
    /\ \E l \in Idx("Launch") : ~Failed(l) /\ log[l].arg = 2
    /\ \E n \in DOMAIN remote0 : remote0[n].vols = <<1>>

====
